---- MODULE Spec2Model ----
(***************************************************************************)
(* Model of Cleaner.py: class Clean, a seven-step cleaning pipeline over a *)
(* protein-intensity table (polars DataFrame).                             *)
(*                                                                         *)
(* A table is a record [columns, rows]: columns is the sequence of column  *)
(* names, rows a sequence of rows, each row a sequence of cells aligned    *)
(* with columns.  A cell is nullable: Null is <<>>, a present value v is   *)
(* <<v>>.  Identifiers are strings, intensities are integers (fixed-point  *)
(* units; 1 stands for the smallest non-zero intensity).                   *)
(* polars boolean expressions are three-valued (true, false, null) and     *)
(* DataFrame.filter keeps exactly the rows whose predicate is true.        *)
(***************************************************************************)
EXTENDS Integers, Sequences, FiniteSets, TLC

VARIABLES pc, df, loaded, before, run, prevOut

vars == <<pc, df, loaded, before, run, prevOut>>

-----------------------------------------------------------------------------
(* Nullable values and polars' three-valued logic *)

Null == <<>>

Some(v) == <<v>>

T == Some(TRUE)

F == Some(FALSE)

\* Expr.__and__ on booleans (Kleene): false dominates null
And(a, b) ==
    IF a = F \/ b = F THEN F
    ELSE IF a = Null \/ b = Null THEN Null
    ELSE T

\* Expr.__or__ on booleans (Kleene): true dominates null
Or(a, b) ==
    IF a = T \/ b = T THEN T
    ELSE IF a = Null \/ b = Null THEN Null
    ELSE F

\* Expr.__invert__: null stays null
Not(a) == IF a = Null THEN Null ELSE Some(~a[1])

\* Expr.is_null / Expr.is_not_null: never null themselves
is_null(a) == Some(a = Null)

is_not_null(a) == Some(a # Null)

\* Expr == literal, Expr != literal: null when the operand is null
Eq(a, lit) == IF a = Null THEN Null ELSE Some(a[1] = lit)

Ne(a, lit) == IF a = Null THEN Null ELSE Some(a[1] # lit)

-----------------------------------------------------------------------------
(* String functions of the polars str namespace, on non-null strings *)

UpperChars == "ABCDEFGHIJKLMNOPQRSTUVWXYZ"

LowerChars == "abcdefghijklmnopqrstuvwxyz"

CharAt(s, i) == SubSeq(s, i, i)

LowerChar(c) ==
    IF \E i \in 1..Len(UpperChars) : CharAt(UpperChars, i) = c
    THEN CharAt(LowerChars, CHOOSE i \in 1..Len(UpperChars) : CharAt(UpperChars, i) = c)
    ELSE c

\* mutant: the identifier is searched without to_lowercase()
Lowercase_skipped(s) == s

RECURSIVE Lowercase(_)
Lowercase(s) ==
    IF Len(s) = 0 THEN ""
    ELSE LowerChar(CharAt(s, 1)) \o Lowercase(SubSeq(s, 2, Len(s)))

\* a literal (metacharacter-free) pattern occurs at position i of s
MatchAt(s, i, lit) ==
    /\ i + Len(lit) - 1 <= Len(s)
    /\ SubSeq(s, i, i + Len(lit) - 1) = lit

ContainsLit(s, lit) == \E i \in 1..Len(s) + 1 : MatchAt(s, i, lit)

StartsWithLit(s, lit) == MatchAt(s, 1, lit)

\* the alternatives of a regex of the form lit1|lit2|...|litN
Alternatives(p) ==
    LET seps == {0, Len(p) + 1} \cup {i \in 1..Len(p) : CharAt(p, i) = "|"}
    IN { SubSeq(p, a + 1, b - 1) :
            <<a, b>> \in { ab \in seps \X seps :
                             /\ ab[1] < ab[2]
                             /\ \A m \in seps : ~(ab[1] < m /\ m < ab[2]) } }

\* regex search for lit1|...|litN
ContainsRegexAlt(s, p) == \E alt \in Alternatives(p) : ContainsLit(s, alt)

RepIDPrefix == "RepID="

\* a match of RepID=([^|]+) starts at position i
RepIDMatchAt(s, i) ==
    /\ MatchAt(s, i, RepIDPrefix)
    /\ i + Len(RepIDPrefix) <= Len(s)
    /\ CharAt(s, i + Len(RepIDPrefix)) # "|"

\* end of the greedy run [^|]+ that starts at position i
RECURSIVE RunEnd(_, _)
RunEnd(s, i) ==
    IF i + 1 <= Len(s) /\ CharAt(s, i + 1) # "|" THEN RunEnd(s, i + 1) ELSE i

\* str.extract(r"RepID=([^|]+)", 1): group 1 of the leftmost match, else null
ExtractRepID(s) ==
    IF \E i \in 1..Len(s) : RepIDMatchAt(s, i)
    THEN LET i == CHOOSE j \in 1..Len(s) :
                      /\ RepIDMatchAt(s, j)
                      /\ \A k \in 1..(j - 1) : ~RepIDMatchAt(s, k)
             b == i + Len(RepIDPrefix)
         IN Some(SubSeq(s, b, RunEnd(s, b)))
    ELSE Null

\* the same functions as column expressions: null in, null out
str_to_lowercase(a) == IF a = Null THEN Null ELSE Some(Lowercase(a[1]))

str_contains(a, lit) == IF a = Null THEN Null ELSE Some(ContainsLit(a[1], lit))

\* mutant: a null string counts as "does not contain"
str_contains_alt_nullfalse(a, p) ==
    IF a = Null THEN F ELSE Some(ContainsRegexAlt(a[1], p))

str_contains_alt(a, p) == IF a = Null THEN Null ELSE Some(ContainsRegexAlt(a[1], p))

str_starts_with(a, lit) == IF a = Null THEN Null ELSE Some(StartsWithLit(a[1], lit))

str_extract(a) == IF a = Null THEN Null ELSE ExtractRepID(a[1])

-----------------------------------------------------------------------------
(* Tables *)

ProteinCol == "protein"

ColIndex(t, c) == CHOOSE i \in 1..Len(t.columns) : t.columns[i] = c

\* pl.col(c) evaluated on row r of table t
Col(t, r, c) == r[ColIndex(t, c)]

\* DataFrame.rename({old: new})
Rename(t, old, new) ==
    [t EXCEPT !.columns = [i \in 1..Len(t.columns) |->
                              IF t.columns[i] = old THEN new ELSE t.columns[i]]]

\* DataFrame.filter(mask): keeps the rows whose mask value is true, in order
Filter(t, mask) ==
    LET idx == SelectSeq([k \in 1..Len(t.rows) |-> k], LAMBDA k : mask[k] = T)
    IN [t EXCEPT !.rows = [j \in 1..Len(idx) |-> t.rows[idx[j]]]]

\* DataFrame.with_columns(expr.alias("protein")): replaces that column in place
WithProtein(t, cells) ==
    [t EXCEPT !.rows = [k \in 1..Len(t.rows) |->
        [i \in 1..Len(t.columns) |->
            IF t.columns[i] = ProteinCol THEN cells[k] ELSE t.rows[k][i]]]]

\* Clean.__init__: the first column of the sheet is renamed to "protein"
Clean(raw) == Rename(raw, raw.columns[1], ProteinCol)

\* [c for c in self.df.columns if c != "protein"]
value_cols(t) == SelectSeq(t.columns, LAMBDA c : c # ProteinCol)

-----------------------------------------------------------------------------
(* The seven steps as table transformations *)

step1_pred(t, r) ==
    And(is_not_null(Col(t, r, ProteinCol)), Ne(Col(t, r, ProteinCol), ""))

Step1(t) == Filter(t, [k \in 1..Len(t.rows) |-> step1_pred(t, t.rows[k])])

\* cond of step 2 for one value column
step2_cond(t, r, c) == Or(is_null(Col(t, r, c)), Eq(Col(t, r, c), 0))

\* mutant: the loop combines the conditions with | instead of &
RECURSIVE step2_mask_any(_, _, _)
step2_mask_any(t, r, k) ==
    IF k = 1 THEN step2_cond(t, r, value_cols(t)[1])
    ELSE Or(step2_mask_any(t, r, k - 1), step2_cond(t, r, value_cols(t)[k]))

\* mask after the loop has visited the first k value columns (k >= 1)
RECURSIVE step2_mask(_, _, _)
step2_mask(t, r, k) ==
    IF k = 1 THEN step2_cond(t, r, value_cols(t)[1])
    ELSE And(step2_mask(t, r, k - 1), step2_cond(t, r, value_cols(t)[k]))

\* mask stays None when there is no value column, and ~None raises TypeError
Step2Raises(t) == Len(value_cols(t)) = 0

\* mutant: filter(mask) instead of filter(~mask)
Step2_mask_kept(t) ==
    Filter(t, [k \in 1..Len(t.rows) |-> step2_mask(t, t.rows[k], Len(value_cols(t)))])

Step2(t) ==
    Filter(t, [k \in 1..Len(t.rows) |-> Not(step2_mask(t, t.rows[k], Len(value_cols(t))))])

step3_pred(t, r) ==
    Not(str_contains(str_to_lowercase(Col(t, r, ProteinCol)), "contam"))

Step3(t) == Filter(t, [k \in 1..Len(t.rows) |-> step3_pred(t, t.rows[k])])

step4_pred(t, r) == Not(str_contains(Col(t, r, ProteinCol), "RepID=unknown"))

Step4(t) == Filter(t, [k \in 1..Len(t.rows) |-> step4_pred(t, t.rows[k])])

\* mutant: the extraction is applied without the k77 prefix test
step5_expr_any_prefix(t, r) ==
    IF str_extract(Col(t, r, ProteinCol)) # Null
    THEN str_extract(Col(t, r, ProteinCol))
    ELSE Col(t, r, ProteinCol)

\* when(starts_with("k77")).then(extract).otherwise(protein): a null
\* condition selects the otherwise branch
step5_expr(t, r) ==
    IF str_starts_with(Col(t, r, ProteinCol), "k77") = T
    THEN str_extract(Col(t, r, ProteinCol))
    ELSE Col(t, r, ProteinCol)

Step5(t) == WithProtein(t, [k \in 1..Len(t.rows) |-> step5_expr(t, t.rows[k])])

blacklist ==
    << "W1WC08_9ZZZZ", "W1WM01_9ZZZZ", "W1Y9K7_9ZZZZ", "W1YGV0_9ZZZZ",
       "W1YKP9_9ZZZZ", "W1YP67_9ZZZZ", "W1YRV8_9ZZZZ", "A0A0F9P276_9ZZZZ",
       "J9G8E8_9ZZZZ", "J9GD12_9ZZZZ" >>

\* "|".join(xs)
RECURSIVE Join(_)
Join(xs) ==
    IF Len(xs) = 0 THEN ""
    ELSE IF Len(xs) = 1 THEN xs[1]
    ELSE xs[1] \o "|" \o Join(Tail(xs))

pattern == Join(blacklist)

step6_pred(t, r) == Not(str_contains_alt(Col(t, r, ProteinCol), pattern))

Step6(t) == Filter(t, [k \in 1..Len(t.rows) |-> step6_pred(t, t.rows[k])])

\* mutant: maintain_order is lost, groups come out in reverse order
RECURSIVE GroupKeys_unordered(_, _)
GroupKeys_unordered(cells, seen) ==
    IF Len(cells) = 0 THEN <<>>
    ELSE IF Head(cells) \in seen THEN GroupKeys_unordered(Tail(cells), seen)
    ELSE GroupKeys_unordered(Tail(cells), seen \cup {Head(cells)}) \o <<Head(cells)>>

\* group keys in first-occurrence order (group_by(..., maintain_order=True));
\* null is a key like any other
RECURSIVE GroupKeys(_, _)
GroupKeys(cells, seen) ==
    IF Len(cells) = 0 THEN <<>>
    ELSE IF Head(cells) \in seen THEN GroupKeys(Tail(cells), seen)
    ELSE <<Head(cells)>> \o GroupKeys(Tail(cells), seen \cup {Head(cells)})

\* mutant: pl.first instead of pl.sum, duplicates are dropped instead of added
pl_sum_first(cells) ==
    IF Len(cells) = 0 \/ Head(cells) = Null THEN 0 ELSE Head(cells)[1]

\* pl.sum over a group: nulls are skipped, an empty or all-null group sums to 0
RECURSIVE pl_sum(_)
pl_sum(cells) ==
    IF Len(cells) = 0 THEN 0
    ELSE (IF Head(cells) = Null THEN 0 ELSE Head(cells)[1]) + pl_sum(Tail(cells))

\* mutant: the aggregated columns are emitted before the group key
Step7_key_last(t) ==
    LET vc     == value_cols(t)
        keys   == GroupKeys([k \in 1..Len(t.rows) |-> Col(t, t.rows[k], ProteinCol)], {})
        grp(g) == SelectSeq(t.rows, LAMBDA r : Col(t, r, ProteinCol) = g)
        agg(g, c) == Some(pl_sum([k \in 1..Len(grp(g)) |-> Col(t, grp(g)[k], c)]))
    IN [columns |-> vc \o <<ProteinCol>>,
        rows    |-> [k \in 1..Len(keys) |->
                        [i \in 1..Len(vc) |-> agg(keys[k], vc[i])] \o <<keys[k]>>]]

Step7(t) ==
    LET vc     == value_cols(t)
        keys   == GroupKeys([k \in 1..Len(t.rows) |-> Col(t, t.rows[k], ProteinCol)], {})
        grp(g) == SelectSeq(t.rows, LAMBDA r : Col(t, r, ProteinCol) = g)
        agg(g, c) == Some(pl_sum([k \in 1..Len(grp(g)) |-> Col(t, grp(g)[k], c)]))
    IN [columns |-> <<ProteinCol>> \o vc,
        rows    |-> [k \in 1..Len(keys) |->
                        <<keys[k]>> \o [i \in 1..Len(vc) |-> agg(keys[k], vc[i])]]]

-----------------------------------------------------------------------------
(* Input tables *)

MaxRows == 2

MaxRuns == 2

RawFirst == "__UNNAMED__0"

\* nullable identifier cells; they exercise every step of the pipeline
IdCells ==
    { Null, Some(""), Some(" "), Some("Q1"), Some("P1"),
      Some("CONTAM_A"), Some("NonContamProtein"),
      Some("P1|RepID=unknown"), Some("sp|P1|RepID=Q1"),
      Some("k77x|RepID=Q1|y"), Some("k77|RepID=P1"), Some("k77x"),
      Some("k77|RepID=|z"), Some("k77|RepID=|RepID=Q1"),
      Some("k77|RepID=k77x"), Some("k77|RepID=k77|RepID=Q1"),
      Some("W1WC08_9ZZZZ"), Some("k77|RepID=J9GD12_9ZZZZ|x") }

PlainIdCells == { Some("Q1"), Some("P1"), Some("k77|RepID=Q1"), Some("k77x") }

Intensities == { Null, Some(0), Some(1), Some(-1) }

SmallIntensities == { Null, Some(0), Some(1) }

\* all tables with the given value columns and at most n rows
Tables(first, cols, ids, vals, n) ==
    LET rowset == { <<id>> \o v : id \in ids, v \in [1..Len(cols) -> vals] }
    IN { [columns |-> <<first>> \o cols, rows |-> rs] :
            rs \in UNION { [1..k -> rowset] : k \in 0..n } }

Row(id, vs) == <<Some(id)>> \o vs

\* the tables of the worked examples
Scenario ==
    [columns |-> <<ProteinCol, "S1", "S2">>,
     rows    |-> << Row("", <<Some(5), Some(0)>>),
                    Row("CONTAM_A", <<Some(10), Some(10)>>),
                    Row("P1|RepID=unknown", <<Some(0), Some(0)>>),
                    Row("k77x|RepID=Q1|y", <<Some(2), Some(0)>>),
                    Row("Q1", <<Some(3), Some(5)>>),
                    Row("W1WC08_9ZZZZ", <<Some(9), Some(9)>>) >>]

ContamExample ==
    [columns |-> <<RawFirst, "S1">>,
     rows    |-> << Row("Contaminant_X", <<Some(1)>>),
                    Row("CONTAM_Y", <<Some(1)>>),
                    Row("NonContamProtein", <<Some(1)>>),
                    Row("P1", <<Some(1)>>) >>]

ZeroExample ==
    [columns |-> <<RawFirst, "S1", "S2", "S3">>,
     rows    |-> << Row("P1", <<Some(0), Null, Some(0)>>),
                    Row("Q1", <<Some(0), Null, Some(1)>>) >>]

CollapseExample ==
    [columns |-> <<RawFirst, "S1", "S2">>,
     rows    |-> << Row("P1", <<Some(1), Some(2)>>),
                    Row("P1", <<Some(3), Null>>) >>]

RewriteExample ==
    [columns |-> <<RawFirst, "S1">>,
     rows    |-> << Row("k77_cluster|RepID=ABC123|rest", <<Some(1)>>),
                    Row("sp|P1", <<Some(1)>>) >>]

OrderExample ==
    [columns |-> <<RawFirst, "S1", "S2">>,
     rows    |-> << Row("Q1", <<Null, Some(1)>>),
                    Row("P1", <<Some(1), Some(1)>>),
                    Row("Q1", <<Null, Some(2)>>) >>]

RawTables ==
    Tables(RawFirst, <<"S1">>, IdCells, {Some(1)}, MaxRows)
      \cup Tables(RawFirst, <<"S1">>, PlainIdCells, Intensities, MaxRows)
      \cup Tables(RawFirst, <<"S1", "S2">>, {Some("Q1"), Some("P1")}, SmallIntensities, MaxRows)
      \cup Tables(RawFirst, <<>>, {Null, Some("Q1"), Some("P1")}, {Null}, MaxRows)
      \cup {Scenario, ContamExample, ZeroExample, CollapseExample, RewriteExample,
            OrderExample}

-----------------------------------------------------------------------------
(* The pipeline: pc is the state of the table inside run_filters *)

\* cleaner = Clean(path)
Init ==
    /\ \E raw \in RawTables : loaded = Clean(raw)
    /\ df = loaded
    /\ before = loaded
    /\ pc = "Loaded"
    /\ run = 1
    /\ prevOut = Null

step1 ==
    /\ pc = "Loaded"
    /\ pc' = "AfterStep1"
    /\ before' = df
    /\ df' = Step1(df)
    /\ UNCHANGED <<loaded, run, prevOut>>

step2 ==
    /\ pc = "AfterStep1"
    /\ \/ /\ Step2Raises(df)
          /\ pc' = "TypeError"
          /\ UNCHANGED <<df, before>>
       \/ /\ ~Step2Raises(df)
          /\ pc' = "AfterStep2"
          /\ before' = df
          /\ df' = Step2(df)
    /\ UNCHANGED <<loaded, run, prevOut>>

step3 ==
    /\ pc = "AfterStep2"
    /\ pc' = "AfterStep3"
    /\ before' = df
    /\ df' = Step3(df)
    /\ UNCHANGED <<loaded, run, prevOut>>

step4 ==
    /\ pc = "AfterStep3"
    /\ pc' = "AfterStep4"
    /\ before' = df
    /\ df' = Step4(df)
    /\ UNCHANGED <<loaded, run, prevOut>>

step5 ==
    /\ pc = "AfterStep4"
    /\ pc' = "AfterStep5"
    /\ before' = df
    /\ df' = Step5(df)
    /\ UNCHANGED <<loaded, run, prevOut>>

step6 ==
    /\ pc = "AfterStep5"
    /\ pc' = "AfterStep6"
    /\ before' = df
    /\ df' = Step6(df)
    /\ UNCHANGED <<loaded, run, prevOut>>

step7 ==
    /\ pc = "AfterStep6"
    /\ pc' = "AfterStep7"
    /\ before' = df
    /\ df' = Step7(df)
    /\ UNCHANGED <<loaded, run, prevOut>>

\* run_filters is called again on the table it returned
run_filters ==
    /\ pc = "AfterStep7"
    /\ run < MaxRuns
    /\ pc' = "Loaded"
    /\ run' = run + 1
    /\ prevOut' = Some(df)
    /\ loaded' = df
    /\ before' = df
    /\ UNCHANGED df

Next ==
    \/ step1
    \/ step2
    \/ step3
    \/ step4
    \/ step5
    \/ step6
    \/ step7
    \/ run_filters

Spec == Init /\ [][Next]_vars

-----------------------------------------------------------------------------
(* Type invariant *)

PcStates ==
    { "Loaded", "AfterStep1", "AfterStep2", "AfterStep3", "AfterStep4",
      "AfterStep5", "AfterStep6", "AfterStep7", "TypeError" }

TypeOK ==
    /\ pc \in PcStates
    /\ run \in 1..MaxRuns
    /\ \A k \in 1..Len(df.rows) : Len(df.rows[k]) = Len(df.columns)

-----------------------------------------------------------------------------
(* Vocabulary of the properties *)

\* the identifier cells of a table, in row order
IdsOf(t) == [k \in 1..Len(t.rows) |-> t.rows[k][1]]

HasId(t, id) == \E k \in 1..Len(t.rows) : t.rows[k][1] = Some(id)

\* the intensity cells of a row
IntensitiesOf(r) == SubSeq(r, 2, Len(r))

HasPrefixK77(id) == Len(id) >= 3 /\ SubSeq(id, 1, 3) = "k77"

AllZeroRow(r) == \A i \in 2..Len(r) : r[i] = Some(0)

-----------------------------------------------------------------------------
(* C1: idempotence of the full pipeline *)

StableOutput(t) ==
    \A k \in 1..Len(t.rows) :
        /\ t.rows[k][1] # Null
        /\ ~HasPrefixK77(t.rows[k][1][1])
        /\ ~AllZeroRow(t.rows[k])

-----------------------------------------------------------------------------
(* C2: the end-to-end scenario *)

RemovedBy(stage, id) ==
    pc = stage => HasId(before, id) /\ ~HasId(df, id)

ScenarioFinal ==
    pc = "AfterStep7" =>
        /\ df.columns = <<ProteinCol, "S1", "S2">>
        /\ df.rows = << <<Some("Q1"), Some(5), Some(5)>> >>

\* C2 (as stated): the scenario ends with the single row Q1, 5, 5, and the
\* rows "", CONTAM_A, P1|RepID=unknown, W1WC08_9ZZZZ are removed by steps
\* 1, 3, 4 and 6 respectively.
C2_ScenarioAsStated ==
    loaded = Clean(Scenario) =>
        /\ ScenarioFinal
        /\ RemovedBy("AfterStep1", "")
        /\ RemovedBy("AfterStep3", "CONTAM_A")
        /\ RemovedBy("AfterStep4", "P1|RepID=unknown")
        /\ RemovedBy("AfterStep6", "W1WC08_9ZZZZ")

\* C2 (amended): the scenario ends with the single row Q1, 5, 5, and the
\* rows "", P1|RepID=unknown, CONTAM_A, W1WC08_9ZZZZ are removed by steps
\* 1, 2, 3 and 6 respectively (the all-zero row P1|RepID=unknown never
\* reaches step 4).
C2_Scenario ==
    loaded = Clean(Scenario) =>
        /\ ScenarioFinal
        /\ RemovedBy("AfterStep1", "")
        /\ RemovedBy("AfterStep2", "P1|RepID=unknown")
        /\ RemovedBy("AfterStep3", "CONTAM_A")
        /\ RemovedBy("AfterStep6", "W1WC08_9ZZZZ")
        /\ pc = "AfterStep4" => df = before

C2_Witness ==
    /\ loaded = Clean(Scenario)
    /\ pc = "AfterStep7"
    /\ Len(df.rows) = 1

-----------------------------------------------------------------------------
(* C3: the contaminant filter *)

\* C3 (as stated): step 3 removes Contaminant_X and CONTAM_Y and retains
\* NonContamProtein.
C3_ExamplesAsStated ==
    pc = "AfterStep3" /\ loaded = Clean(ContamExample) =>
        /\ ~HasId(df, "Contaminant_X")
        /\ ~HasId(df, "CONTAM_Y")
        /\ HasId(df, "NonContamProtein")

\* the six letters of the marker, in either case
MarkerLetters ==
    << {"c", "C"}, {"o", "O"}, {"n", "N"}, {"t", "T"}, {"a", "A"}, {"m", "M"} >>

\* id holds the marker, in any mix of cases, somewhere
HoldsMarker(id) ==
    \E i \in 1..Len(id) :
        /\ i + Len(MarkerLetters) - 1 <= Len(id)
        /\ \A j \in 1..Len(MarkerLetters) :
              SubSeq(id, i + j - 1, i + j - 1) \in MarkerLetters[j]

\* C3 (amended): step 3 removes exactly the rows whose identifier holds
\* "contam" in any letter case, keeping the others in order; Contaminant_X,
\* CONTAM_Y and NonContamProtein are all three removed.
C3_Examples ==
    pc = "AfterStep3" =>
        /\ df.columns = before.columns
        /\ df.rows = SelectSeq(before.rows,
                        LAMBDA r : r[1] # Null /\ ~HoldsMarker(r[1][1]))
        /\ loaded = Clean(ContamExample) =>
              /\ HasId(before, "Contaminant_X") /\ ~HasId(df, "Contaminant_X")
              /\ HasId(before, "CONTAM_Y") /\ ~HasId(df, "CONTAM_Y")
              /\ HasId(before, "NonContamProtein") /\ ~HasId(df, "NonContamProtein")
              /\ HasId(df, "P1")

C3_Witness ==
    /\ pc = "AfterStep3"
    /\ loaded = Clean(ContamExample)
    /\ IdsOf(df) = <<Some("P1")>>

-----------------------------------------------------------------------------
(* C4: step 2 on a table without intensity columns *)

\* C4: on a table whose only column is protein, step 2 completes, removes
\* every row, keeps the column set, and leaves the pipeline ready for step 3.
C4_Step2WithoutIntensities ==
    [][pc = "AfterStep1" /\ df.columns = <<ProteinCol>> =>
          /\ pc' = "AfterStep2"
          /\ df'.rows = <<>>
          /\ df'.columns = df.columns]_vars

-----------------------------------------------------------------------------
(* C5: step 2 with at least one intensity column *)

Measured(r) == \E i \in 2..Len(r) : r[i] # Null /\ r[i] # Some(0)

\* C5: step 2 removes a row if and only if every intensity of the row is null
\* or zero, and keeps the remaining rows unchanged and in order; [0, null, 0]
\* is removed and [0, null, 1] is kept.
C5_Step2KeepsMeasuredRows ==
    pc = "AfterStep2" =>
        /\ df.columns = before.columns
        /\ df.rows = SelectSeq(before.rows, Measured)
        /\ loaded = Clean(ZeroExample) =>
              /\ before.rows = Clean(ZeroExample).rows
              /\ df.rows = << <<Some("Q1"), Some(0), Null, Some(1)>> >>

C5_Witness ==
    /\ pc = "AfterStep2"
    /\ loaded = Clean(ZeroExample)
    /\ HasId(before, "P1")
    /\ IdsOf(df) = <<Some("Q1")>>

-----------------------------------------------------------------------------
(* C6: step 7 collapses duplicates *)

ZeroIfNull(c) == IF c = Null THEN 0 ELSE c[1]

\* the sum of column i over the rows of t with the indices in S, null as 0
RECURSIVE ColumnTotal(_, _, _)
ColumnTotal(t, S, i) ==
    IF S = {} THEN 0
    ELSE LET n == CHOOSE m \in S : TRUE
         IN ZeroIfNull(t.rows[n][i]) + ColumnTotal(t, S \ {n}, i)

RowsWithId(t, idcell) == {n \in 1..Len(t.rows) : t.rows[n][1] = idcell}

FirstOccurrence(t, idcell) ==
    CHOOSE n \in RowsWithId(t, idcell) : \A m \in RowsWithId(t, idcell) : n <= m

\* C6: the output of step 7 has exactly one row per distinct identifier of
\* its input, each intensity is the sum over the identifier's rows with null
\* counted as 0, and the rows are in first-occurrence order of the
\* identifiers.
C6_Step7Collapses ==
    pc = "AfterStep7" =>
        /\ df.columns = before.columns
        /\ {df.rows[k][1] : k \in 1..Len(df.rows)}
              = {before.rows[n][1] : n \in 1..Len(before.rows)}
        /\ \A j, k \in 1..Len(df.rows) : j # k => df.rows[j][1] # df.rows[k][1]
        /\ \A k \in 1..Len(df.rows) : \A i \in 2..Len(df.columns) :
              df.rows[k][i] = Some(ColumnTotal(before, RowsWithId(before, df.rows[k][1]), i))
        /\ \A j, k \in 1..Len(df.rows) :
              j < k => FirstOccurrence(before, df.rows[j][1])
                          < FirstOccurrence(before, df.rows[k][1])
        /\ loaded = Clean(CollapseExample) =>
              df.rows = << <<Some("P1"), Some(4), Some(2)>> >>

C6_Witness ==
    /\ pc = "AfterStep7"
    /\ loaded = Clean(OrderExample)
    /\ Len(before.rows) = 3
    /\ df.rows = << <<Some("Q1"), Some(0), Some(3)>>,
                    <<Some("P1"), Some(1), Some(1)>> >>

-----------------------------------------------------------------------------
(* C7: the k77 rewrite of step 5 *)

RepIDAt(id, i) == i + 5 <= Len(id) /\ SubSeq(id, i, i + 5) = "RepID="

IsBar(id, j) == SubSeq(id, j, j) = "|"

\* RepID= at position i is followed by at least one character other than |
ValueAt(id, i) == RepIDAt(id, i) /\ i + 6 <= Len(id) /\ ~IsBar(id, i + 6)

Extractable(id) == \E i \in 1..Len(id) : ValueAt(id, i)

\* the text from position b up to, not including, the next | or the end
TextUpToBar(id, b) ==
    LET stops == {j \in b..Len(id) : IsBar(id, j)} \cup {Len(id) + 1}
        e     == CHOOSE j \in stops : \A m \in stops : j <= m
    IN SubSeq(id, b, e - 1)

FirstRepID(id) ==
    CHOOSE i \in 1..Len(id) : RepIDAt(id, i) /\ \A m \in 1..(i - 1) : ~RepIDAt(id, m)

FirstValue(id) ==
    CHOOSE i \in 1..Len(id) : ValueAt(id, i) /\ \A m \in 1..(i - 1) : ~ValueAt(id, m)

\* the rewrite as C7 states it: the text after the first RepID=
RewriteAsStated(idcell) ==
    IF idcell = Null \/ ~HasPrefixK77(idcell[1]) THEN idcell
    ELSE IF Extractable(idcell[1])
         THEN Some(TextUpToBar(idcell[1], FirstRepID(idcell[1]) + 6))
         ELSE Null

\* the rewrite as amended: the text after the first RepID= that has a value
RewriteAmended(idcell) ==
    IF idcell = Null \/ ~HasPrefixK77(idcell[1]) THEN idcell
    ELSE IF Extractable(idcell[1])
         THEN Some(TextUpToBar(idcell[1], FirstValue(idcell[1]) + 6))
         ELSE Null

\* C7 (as stated): step 5 replaces every identifier starting with k77 by the
\* text following the first RepID= up to the next | or the end, or by null
\* when no RepID= is followed by a character other than |; other identifiers
\* are unchanged; no row is added or removed.
C7_RewriteAsStated ==
    pc = "AfterStep5" =>
        /\ Len(df.rows) = Len(before.rows)
        /\ \A k \in 1..Len(df.rows) :
              df.rows[k][1] = RewriteAsStated(before.rows[k][1])

\* C7 (amended): step 5 replaces every identifier starting with k77 by the
\* text following the first RepID= that is directly followed by a character
\* other than |, up to the next | or the end, or by null when there is no
\* such RepID=; other identifiers are unchanged; no row is added or removed.
C7_Rewrite ==
    pc = "AfterStep5" =>
        /\ Len(df.rows) = Len(before.rows)
        /\ \A k \in 1..Len(df.rows) :
              df.rows[k][1] = RewriteAmended(before.rows[k][1])
        /\ loaded = Clean(RewriteExample) =>
              IdsOf(df) = <<Some("ABC123"), Some("sp|P1")>>

C7_Witness ==
    /\ pc = "AfterStep5"
    /\ loaded = Clean(RewriteExample)
    /\ IdsOf(before) = <<Some("k77_cluster|RepID=ABC123|rest"), Some("sp|P1")>>
    /\ IdsOf(df) = <<Some("ABC123"), Some("sp|P1")>>

-----------------------------------------------------------------------------
(* C8: the column set *)

\* C8: in every state of the pipeline the table has exactly one column named
\* protein, in first position, and the same columns in the same order as the
\* Loaded table.
C8_ColumnsPreserved ==
    /\ df.columns[1] = ProteinCol
    /\ Cardinality({i \in 1..Len(df.columns) : df.columns[i] = ProteinCol}) = 1
    /\ df.columns = loaded.columns

C8_Witness ==
    /\ pc = "AfterStep7"
    /\ df.columns = <<ProteinCol, "S1", "S2", "S3">>
    /\ Len(df.rows) >= 1

-----------------------------------------------------------------------------
(* C9: intensities change only by merging *)

RowSetOf(t) == {t.rows[k] : k \in 1..Len(t.rows)}

\* C9: steps 1..6 leave the intensities and the order of the rows they keep
\* unchanged, and step 7 leaves every intensity, null included, of a row whose
\* identifier no other row shares equal to its input value.
C9_IntensitiesOnlyMerged ==
    /\ pc \in {"AfterStep1", "AfterStep2", "AfterStep3", "AfterStep4", "AfterStep6"} =>
          df.rows = SelectSeq(before.rows, LAMBDA r : r \in RowSetOf(df))
    /\ pc = "AfterStep5" =>
          /\ Len(df.rows) = Len(before.rows)
          /\ \A k \in 1..Len(df.rows) :
                IntensitiesOf(df.rows[k]) = IntensitiesOf(before.rows[k])
    /\ pc = "AfterStep7" =>
          \A n \in 1..Len(before.rows) :
              RowsWithId(before, before.rows[n][1]) = {n} =>
                  before.rows[n] \in RowSetOf(df)

-----------------------------------------------------------------------------
(* C10: identifiers nulled by step 5 never reach step 7 *)

NoNullId(t) == \A k \in 1..Len(t.rows) : t.rows[k][1] # Null

AllRows(t) == 1..Len(t.rows)

\* C10: step 5 nulls exactly the identifiers that start with k77 and have no
\* extractable RepID value; step 6 removes every row with a null identifier;
\* so the final output has no null or empty identifier and its column sums
\* are sums over rows with non-null identifiers only.
C10_NulledRowsDropped ==
    /\ pc = "AfterStep5" =>
          \A k \in 1..Len(df.rows) :
              df.rows[k][1] = Null <=>
                  /\ before.rows[k][1] # Null
                  /\ HasPrefixK77(before.rows[k][1][1])
                  /\ ~Extractable(before.rows[k][1][1])
    /\ pc = "AfterStep6" =>
          /\ NoNullId(df)
          /\ \A r \in RowSetOf(df) : r \in RowSetOf(before)
    /\ pc = "AfterStep7" =>
          /\ NoNullId(before)
          /\ \A k \in 1..Len(df.rows) : df.rows[k][1] \notin {Null, Some("")}
          /\ \A i \in 2..Len(df.columns) :
                ColumnTotal(df, AllRows(df), i) = ColumnTotal(before, AllRows(before), i)

C10_Witness ==
    /\ pc = "AfterStep6"
    /\ ~NoNullId(before)
    /\ Len(df.rows) >= 1
    /\ Len(df.rows) < Len(before.rows)

====
